---- MODULE Spec2Model ----
(***************************************************************************)
(* Model of the sprite-sheet tools of no_dungeon_no_dragons:               *)
(*   tools/import_aseprite_sheet.py  frame extraction, greedy packer,      *)
(*                                    manifest builder                     *)
(*   tools/extrude_pixels.py         one-pixel extrusion filter            *)
(* Python indices are 0-based; sequences here are 1-based, coordinates     *)
(* (x, y) keep their 0-based values.                                       *)
(***************************************************************************)
EXTENDS Integers, Sequences, FiniteSets, TLC

VARIABLES
    pc,          \* position of the import script
    frames,      \* meta["frames"] of the aseprite json, already split on "."
    layer_names, \* names of meta["layers"]
    fi,          \* index of the next frame of the extraction loop
    err,         \* the layer named by the raised ValueError, <<>> if none
    objs,        \* the Sprite objects, in creation order
    sprites,     \* defaultdict(list): <<[name, list of object ids]>> in key order
    masks,       \* masks[sprite_name][layer_name][frame_idx]
    flat_sprites,\* list(chain(*sprites.values())), as object ids
    inds,        \* sorted(range(len(flat_sprites)), key=-size)
    sheet_w,     \* sheet.shape[1] of the packed sheet
    sheet_h,     \* sheet.shape[0] of the packed sheet
    occ,         \* cells (x, y) whose last channel of the packed sheet is 1
    tls_to_try,  \* candidate top-lefts
    si,          \* position of the packing loop in flat_sprites
    meta,        \* the sheet meta
    written,     \* 0.png and 0.json have been written
    inp_pixels,  \* extrude_pixels: the input image
    out_pixels,  \* extrude_pixels: the output image
    ei, ej,      \* extrude_pixels: the pixel loop position
    epc          \* extrude_pixels: position of main

vars == <<pc, frames, layer_names, fi, err, objs, sprites, masks, flat_sprites,
          inds, sheet_w, sheet_h, occ, tls_to_try, si, meta, written,
          inp_pixels, out_pixels, ei, ej, epc>>

importVars == <<pc, frames, layer_names, fi, err, objs, sprites, masks,
                flat_sprites, inds, sheet_w, sheet_h, occ, tls_to_try, si,
                meta, written>>

extrudeVars == <<inp_pixels, out_pixels, ei, ej, epc>>

----------------------------------------------------------------------------
(* Bounds of the explored inputs *)

MaxSprites == 3     \* sprites handed to the packer
MaxDim == 3         \* largest width / height of these sprites
MaxFewSprites == 2  \* sprites of the lists of larger sprites
MaxBigDim == 4      \* largest width / height of the larger sprites
MaxFrames == 2      \* frame descriptors in the aseprite json
MaxFrameIdx == 1    \* largest frame index
SheetW == 5         \* width of the source sheet
SheetH == 5         \* height of the source sheet
MaxRows == 2        \* most rows of an image of three pixel values
MaxCols == 2        \* most columns of an image of three pixel values
MaxStripCols == 5   \* most columns of a one-row image of two pixel values

----------------------------------------------------------------------------
(* Helpers *)

Max2(a, b) == IF a >= b THEN a ELSE b
Min2(a, b) == IF a <= b THEN a ELSE b
SetMax(S) == CHOOSE m \in S : \A n \in S : n <= m
SetMin(S) == CHOOSE m \in S : \A n \in S : m <= n

RECURSIVE SumSeq(_)
SumSeq(s) == IF s = <<>> THEN 0 ELSE Head(s) + SumSeq(Tail(s))

RECURSIVE Chain(_)
Chain(ss) == IF ss = <<>> THEN <<>> ELSE Head(ss) \o Chain(Tail(ss))

RemoveAt(s, i) == SubSeq(s, 1, i - 1) \o SubSeq(s, i + 1, Len(s))

----------------------------------------------------------------------------
(* import_aseprite_sheet.py: constants and the Sprite / Mask classes *)

_SPRITE_LAYER == <<"s", "p", "r", "i", "t", "e">>
_MASK_LAYER_PREFIX == <<"m", "a", "s", "k", "_">>

NChannels == 4

\* str.startswith
startswith(s, p) == Len(s) >= Len(p) /\ SubSeq(s, 1, Len(p)) = p

\* re.sub(r"^mask_", "", layer_name)
StripMaskPrefix(s) ==
    IF startswith(s, _MASK_LAYER_PREFIX)
    THEN SubSeq(s, Len(_MASK_LAYER_PREFIX) + 1, Len(s))
    ELSE s

Sprite(name, frame_idx, w, h, tl) ==
    [name |-> name, frame_idx |-> frame_idx, w |-> w, h |-> h, tl |-> tl]

Mask(name, frame_idx, tl, w, h) ==
    [name |-> name, frame_idx |-> frame_idx, tl |-> tl, w |-> w, h |-> h]

tr(s) == <<s.tl[1] + s.w, s.tl[2]>>
bl(s) == <<s.tl[1], s.tl[2] + s.h>>

\* as get_neighbor_tls, without the one-pixel gap
get_neighbor_tls_NoGap(s) ==
    << <<bl(s)[1], bl(s)[2]>>, <<tr(s)[1], tr(s)[2]>> >>

get_neighbor_tls(s) ==
    << <<bl(s)[1], bl(s)[2] + 1>>, <<tr(s)[1] + 1, tr(s)[2]>> >>

\* as to_meta, the size shrunk by one pixel only
to_meta_ShrinkOne(s) ==
    [name |-> s.name, x |-> s.tl[1] + 1, y |-> s.tl[2] + 1,
     w |-> s.w - 1, h |-> s.h - 1, frame_idx |-> s.frame_idx]

to_meta(s) ==
    [name |-> s.name, x |-> s.tl[1] + 1, y |-> s.tl[2] + 1,
     w |-> s.w - 2, h |-> s.h - 2, frame_idx |-> s.frame_idx]

mask_to_meta(m) ==
    [name |-> m.name, x |-> m.tl[1], y |-> m.tl[2],
     w |-> m.w, h |-> m.h, frame_idx |-> m.frame_idx]

\* image.size of a sprite image
ImageSize(s) == s.h * s.w * NChannels

----------------------------------------------------------------------------
(* numpy basic slicing a[start:stop] on an axis of length n *)

SliceIdx(k, n) == IF k < 0 THEN Max2(k + n, 0) ELSE Min2(k, n)
SliceStart(start, n) == SliceIdx(start, n)
SliceLen(start, stop, n) == Max2(SliceIdx(stop, n) - SliceIdx(start, n), 0)

----------------------------------------------------------------------------
(* The source sheet read by cv2.imread: per-pixel maximum over channels *)

SheetMaxAt(x, y) ==
    IF <<x, y>> = <<2, 2>> THEN 255
    ELSE IF <<x, y>> = <<3, 2>> THEN 128
    ELSE 0

----------------------------------------------------------------------------
(* Inputs *)

LayerNames ==
    { _SPRITE_LAYER,
      <<"m", "a", "s", "k", "_", "h", "i", "t">>,
      <<"m", "a", "s", "k", "_", "s", "p", "r", "i", "t", "e">>,
      <<"b", "o", "d", "y">> }

Tags == {"", "run"}

\* authored rectangles; the cropped images are never empty
Rects == { [x |-> 1, y |-> 1, w |-> 1, h |-> 1],
           [x |-> 2, y |-> 2, w |-> 3, h |-> 2] }

FrameDescs ==
    [sprite_name : {"hero"}, layer_name : LayerNames, tag : Tags,
     frame_idx : 0..MaxFrameIdx, frame : Rects]

SeqsUpTo(S, n) == UNION { [1..k -> S] : k \in 1..n }

\* the file name of a frame: {title}.{layer}.{tag}.{frame}
FileName(f) == <<f.sprite_name, f.layer_name, f.tag, f.frame_idx>>

\* the frames of one json have different file names
FrameLists ==
    { fs \in SeqsUpTo(FrameDescs, MaxFrames) :
        \A i \in 1..Len(fs) : \A j \in 1..Len(fs) :
            i # j => FileName(fs[i]) # FileName(fs[j]) }

LayersOf(fs) == { fs[k].layer_name : k \in 1..Len(fs) }

----------------------------------------------------------------------------
(* import_aseprite_sheet.py: frame extraction (lines 100-189) *)

\* sprite_name, with `_tag` appended when the tag is not empty
FrameSpriteName(f) ==
    IF f.tag # "" THEN f.sprite_name \o "_" \o f.tag ELSE f.sprite_name

\* the ValueError of line 132 is raised for this frame
IsInvalidLayer(f) ==
    /\ ~startswith(f.layer_name, _MASK_LAYER_PREFIX)
    /\ f.layer_name # _SPRITE_LAYER

\* the branch `if layer_name == _SPRITE_LAYER` is taken, layer_name being
\* the name after the mask prefix was stripped
TakesSpriteBranch(f) == StripMaskPrefix(f.layer_name) = _SPRITE_LAYER

\* the sprite cut from the sheet: the frame expanded by one pixel per side
ExtractSprite(f) ==
    LET x == f.frame.x - 1
        y == f.frame.y - 1
        w == f.frame.w + 2
        h == f.frame.h + 2
    IN  Sprite(FrameSpriteName(f), f.frame_idx,
               SliceLen(x, x + w, SheetW), SliceLen(y, y + h, SheetH),
               <<0, 0>>)

\* image = sheet[y : y + h, x : x + w, :].max(-1), as cells of the crop
MaskImage(f) ==
    LET x0 == SliceStart(f.frame.x, SheetW)
        y0 == SliceStart(f.frame.y, SheetH)
        cw == SliceLen(f.frame.x, f.frame.x + f.frame.w, SheetW)
        ch == SliceLen(f.frame.y, f.frame.y + f.frame.h, SheetH)
    IN  [c \in (0..cw - 1) \X (0..ch - 1) |-> SheetMaxAt(x0 + c[1], y0 + c[2])]

\* the Mask of a mask frame, or <<>> for `mask = None`
ExtractMask(f) ==
    LET image == MaskImage(f)
        cols == { c[1] : c \in DOMAIN image }
        rows == { c[2] : c \in DOMAIN image }
        imax == SetMax({ image[c] : c \in DOMAIN image })
        row == [cx \in cols |-> SetMax({ image[<<cx, cy>>] : cy \in rows })]
        col == [cy \in rows |-> SetMax({ image[<<cx, cy>>] : cx \in cols })]
        rmax == SetMax({ row[cx] : cx \in cols })
        cmax == SetMax({ col[cy] : cy \in rows })
        left_x == SetMin({ cx \in cols : row[cx] = rmax })
        right_x == SetMax({ cx \in cols : row[cx] = rmax })
        top_y == SetMin({ cy \in rows : col[cy] = cmax }) + 1
        bot_y == SetMax({ cy \in rows : col[cy] = cmax }) + 1
    IN  IF imax > 0
        THEN << Mask(FrameSpriteName(f), f.frame_idx, <<left_x, top_y>>,
                     right_x - left_x + 1, bot_y - top_y + 1) >>
        ELSE <<>>

\* as AppendSprite, the sprite put at the front of its list
AppendSprite_Front(d, name, id) ==
    IF \E k \in 1..Len(d) : d[k].name = name
    THEN [k \in 1..Len(d) |->
            IF d[k].name = name
            THEN [d[k] EXCEPT !.list = <<id>> \o @]
            ELSE d[k]]
    ELSE Append(d, [name |-> name, list |-> <<id>>])

\* sprites[sprite_name].append(sprite), id being the new object's id
AppendSprite(d, name, id) ==
    IF \E k \in 1..Len(d) : d[k].name = name
    THEN [k \in 1..Len(d) |->
            IF d[k].name = name
            THEN [d[k] EXCEPT !.list = Append(@, id)]
            ELSE d[k]]
    ELSE Append(d, [name |-> name, list |-> <<id>>])

\* masks[sprite_name][layer_name][frame_idx] = mask
StoreMask(ms, layer, m) ==
    { e \in ms : ~(e.mask.name = m.name /\ e.layer = layer
                   /\ e.mask.frame_idx = m.frame_idx) }
    \cup { [layer |-> layer, mask |-> m] }

\* lines 116-118: the json must list the sprite layer
ReadMeta ==
    /\ pc = "read"
    /\ IF _SPRITE_LAYER \in layer_names
       THEN pc' = "frames" /\ err' = err
       ELSE pc' = "failed" /\ err' = _SPRITE_LAYER
    /\ UNCHANGED <<frames, layer_names, fi, objs, sprites, masks, flat_sprites,
                   inds, sheet_w, sheet_h, occ, tls_to_try, si, meta, written>>
    /\ UNCHANGED extrudeVars

\* lines 120-189: one iteration of `for frame in frames`
ExtractFrame ==
    /\ pc = "frames"
    /\ fi <= Len(frames)
    /\ LET f == frames[fi] IN
       IF IsInvalidLayer(f)
       THEN /\ pc' = "failed"
            /\ err' = f.layer_name
            /\ UNCHANGED <<fi, objs, sprites, masks>>
       ELSE /\ pc' = pc
            /\ err' = err
            /\ fi' = fi + 1
            /\ IF TakesSpriteBranch(f)
               THEN /\ objs' = Append(objs, ExtractSprite(f))
                    /\ sprites' = AppendSprite(sprites, FrameSpriteName(f),
                                               Len(objs) + 1)
                    /\ masks' = masks
               ELSE \* `elif is_mask`: the frame is no sprite and was not
                    \* rejected, so its layer starts with the mask prefix
                    /\ masks' = IF ExtractMask(f) = <<>>
                                THEN masks
                                ELSE StoreMask(masks,
                                               StripMaskPrefix(f.layer_name),
                                               ExtractMask(f)[1])
                    /\ UNCHANGED <<objs, sprites>>
    /\ UNCHANGED <<frames, layer_names, flat_sprites, inds, sheet_w, sheet_h,
                   occ, tls_to_try, si, meta, written>>
    /\ UNCHANGED extrudeVars

----------------------------------------------------------------------------
(* import_aseprite_sheet.py: packing (lines 193-237) *)

\* position of flat_sprites[i] in sorted(range(n), key=-image.size), a
\* stable sort
SortRank(flat, os, i) ==
    1 + Cardinality({ j \in 1..Len(flat) :
            \/ ImageSize(os[flat[j]]) > ImageSize(os[flat[i]])
            \/ ImageSize(os[flat[j]]) = ImageSize(os[flat[i]]) /\ j < i })

SortedInds(flat, os) ==
    [p \in 1..Len(flat) |->
        CHOOSE i \in 1..Len(flat) : SortRank(flat, os, i) = p]

\* the cells of sheet[min_y:max_y, min_x:max_x]
Footprint(tl, s) ==
    (tl[1]..(tl[1] + s.w - 1)) \X (tl[2]..(tl[2] + s.h - 1))

\* sheet[min_y:max_y, min_x:max_x, -1].max() == 0
RegionFree(tl, s) == Footprint(tl, s) \cap occ = {}

\* as Fits, without the look at the occupancy channel
Fits_NoOccupancy(tl, s) ==
    /\ sheet_w > tl[1] + s.w
    /\ sheet_h > tl[2] + s.h

\* as Fits, asking for one more free column and row
Fits_OneMore(tl, s) ==
    /\ sheet_w > tl[1] + s.w + 1
    /\ sheet_h > tl[2] + s.h + 1
    /\ RegionFree(tl, s)

\* the test of lines 209-213
Fits(tl, s) ==
    /\ sheet_w > tl[1] + s.w
    /\ sheet_h > tl[2] + s.h
    /\ RegionFree(tl, s)

\* as best_tl_idx, the scan keeping the last candidate that fits
best_tl_idx_Last(s) ==
    IF \E i \in 1..Len(tls_to_try) : Fits(tls_to_try[i], s)
    THEN SetMax({ i \in 1..Len(tls_to_try) : Fits(tls_to_try[i], s) })
    ELSE 0

\* best_tl_idx after the scan of lines 205-215; 0 stands for None
best_tl_idx(s) ==
    IF \E i \in 1..Len(tls_to_try) : Fits(tls_to_try[i], s)
    THEN SetMin({ i \in 1..Len(tls_to_try) : Fits(tls_to_try[i], s) })
    ELSE 0

\* the sprite the packing loop is at
CurSprite == objs[flat_sprites[si]]

\* the order of `for sprite in flat_sprites`
PackOrder(flat, sorted) == flat

\* lines 193-200
PackInit ==
    /\ pc = "frames"
    /\ fi > Len(frames)
    /\ LET flat == Chain([k \in 1..Len(sprites) |-> sprites[k].list]) IN
        /\ inds' = SortedInds(flat, objs)
        /\ flat_sprites' = PackOrder(flat, SortedInds(flat, objs))
    /\ sheet_w' = 0
    /\ sheet_h' = 0
    /\ occ' = {}
    /\ tls_to_try' = << <<0, 0>> >>
    /\ si' = 1
    /\ pc' = "pack"
    /\ UNCHANGED <<frames, layer_names, fi, err, objs, sprites, masks, meta,
                   written>>
    /\ UNCHANGED extrudeVars

\* as GrownShape, the new sheet having the old shape
GrownShape_Same(s) == <<sheet_w, sheet_h>>

\* the shape (width, height) of new_sheet, lines 218-225
GrownShape(s) == <<sheet_w + s.w, sheet_h + s.h>>

\* lines 217-227: no candidate fits, the sheet grows by the sprite's size
Grow ==
    /\ pc = "pack"
    /\ si <= Len(flat_sprites)
    /\ best_tl_idx(CurSprite) = 0
    /\ sheet_w' = GrownShape(CurSprite)[1]
    /\ sheet_h' = GrownShape(CurSprite)[2]
    /\ UNCHANGED <<pc, frames, layer_names, fi, err, objs, sprites, masks,
                   flat_sprites, inds, occ, tls_to_try, si, meta, written>>
    /\ UNCHANGED extrudeVars

\* lines 229-237: the sprite is put at the first candidate that fits
Place ==
    /\ pc = "pack"
    /\ si <= Len(flat_sprites)
    /\ best_tl_idx(CurSprite) # 0
    /\ LET i == best_tl_idx(CurSprite)
           tl == tls_to_try[i]
           placed == [CurSprite EXCEPT !.tl = tl]
       IN  /\ objs' = [objs EXCEPT ![flat_sprites[si]] = placed]
           /\ occ' = occ \cup Footprint(tl, placed)
           /\ tls_to_try' = RemoveAt(tls_to_try, i) \o get_neighbor_tls(placed)
    /\ si' = si + 1
    /\ UNCHANGED <<pc, frames, layer_names, fi, err, sprites, masks,
                   flat_sprites, inds, sheet_w, sheet_h, meta, written>>
    /\ UNCHANGED extrudeVars

----------------------------------------------------------------------------
(* import_aseprite_sheet.py: sheet meta and output (lines 239-269) *)

\* masks_meta of lines 254-258
MasksMeta(s) ==
    LET mine == { e \in masks : e.mask.name = s.name
                                /\ e.mask.frame_idx = s.frame_idx }
    IN  [mn \in { e.layer : e \in mine } |->
            mask_to_meta((CHOOSE e \in mine : e.layer = mn).mask)]

FrameMeta(s) == [sprite |-> to_meta(s), masks |-> MasksMeta(s)]

\* meta["frames"] after the loops of lines 247-264
MetaFrames ==
    [name \in { sprites[k].name : k \in 1..Len(sprites) } |->
        LET list == (CHOOSE k \in 1..Len(sprites) :
                        sprites[k].name = name) IN
        [i \in 1..Len(sprites[list].list) |->
            FrameMeta(objs[sprites[list].list[i]])]]

\* lines 239-264
BuildMeta ==
    /\ pc = "pack"
    /\ si > Len(flat_sprites)
    /\ occ' = {}
    /\ meta' = [size |-> <<sheet_w, sheet_h>>, frames |-> MetaFrames]
    /\ pc' = "save"
    /\ UNCHANGED <<frames, layer_names, fi, err, objs, sprites, masks,
                   flat_sprites, inds, sheet_w, sheet_h, tls_to_try, si,
                   written>>
    /\ UNCHANGED extrudeVars

\* lines 266-269
Save ==
    /\ pc = "save"
    /\ written' = TRUE
    /\ pc' = "done"
    /\ UNCHANGED <<frames, layer_names, fi, err, objs, sprites, masks,
                   flat_sprites, inds, sheet_w, sheet_h, occ, tls_to_try, si,
                   meta>>
    /\ UNCHANGED extrudeVars

----------------------------------------------------------------------------
(* Specifications of the import script *)

NoMeta == [size |-> <<0, 0>>, frames |-> <<>>]

ExtrudeIdle ==
    /\ inp_pixels = <<>>
    /\ out_pixels = <<>>
    /\ ei = 0
    /\ ej = 0
    /\ epc = "idle"

ImportStart ==
    /\ fi = 1
    /\ err = <<>>
    /\ masks = {}
    /\ flat_sprites = <<>>
    /\ inds = <<>>
    /\ sheet_w = 0
    /\ sheet_h = 0
    /\ occ = {}
    /\ tls_to_try = <<>>
    /\ si = 0
    /\ meta = NoMeta
    /\ written = FALSE

\* the whole script on one aseprite file
InitImport ==
    /\ frames \in FrameLists
    /\ layer_names \in { LayersOf(frames), LayersOf(frames) \cup {_SPRITE_LAYER} }
    /\ pc = "read"
    /\ objs = <<>>
    /\ sprites = <<>>
    /\ ImportStart
    /\ ExtrudeIdle

NextImport ==
    \/ ReadMeta
    \/ ExtractFrame
    \/ PackInit
    \/ Grow
    \/ Place
    \/ BuildMeta
    \/ Save

SpecImport == InitImport /\ [][NextImport]_vars

\* the packer on any list of extracted sprites
SpriteLists(dim, n) ==
    { [k \in 1..Len(wh) |-> Sprite("s", k - 1, wh[k][1], wh[k][2], <<0, 0>>)] :
        wh \in SeqsUpTo((1..dim) \X (1..dim), n) }

InitPack ==
    /\ frames = <<>>
    /\ layer_names = {_SPRITE_LAYER}
    /\ pc = "frames"
    /\ objs \in SpriteLists(MaxDim, MaxSprites)
                \cup SpriteLists(MaxBigDim, MaxFewSprites)
    /\ sprites = << [name |-> "s", list |-> [k \in 1..Len(objs) |-> k]] >>
    /\ ImportStart
    /\ ExtrudeIdle

NextPack ==
    \/ PackInit
    \/ Grow
    \/ Place
    \/ BuildMeta
    \/ Save

SpecPack == InitPack /\ [][NextPack]_vars

\* the packer on the lists of few, larger sprites; the script runs on as
\* long as it has a step to take
InitPackFew ==
    /\ frames = <<>>
    /\ layer_names = {_SPRITE_LAYER}
    /\ pc = "frames"
    /\ objs \in SpriteLists(MaxBigDim, MaxFewSprites)
    /\ sprites = << [name |-> "s", list |-> [k \in 1..Len(objs) |-> k]] >>
    /\ ImportStart
    /\ ExtrudeIdle

FairSpecPack == InitPackFew /\ [][NextPack]_vars /\ WF_vars(NextPack)

----------------------------------------------------------------------------
(* Properties of the packer *)

Packing == pc = "pack" /\ si <= Len(flat_sprites)

\* the packing loop has left the sprites before position si behind it
Packed == pc \in {"pack", "save", "done"}
PlacedIds == IF Packed THEN { flat_sprites[k] : k \in 1..(si - 1) } ELSE {}
AllPlaced == Packed /\ si > Len(flat_sprites)

PlacedFootprint(id) == Footprint(objs[id].tl, objs[id])

\* C1: the footprints of any two placed sprites are disjoint, and every
\* placed footprint lies inside the sheet (which only grows, so inside the
\* final sheet too).
C1_NonOverlap ==
    /\ \A a \in PlacedIds : \A b \in PlacedIds :
          a # b => PlacedFootprint(a) \cap PlacedFootprint(b) = {}
    /\ \A a \in PlacedIds :
          /\ objs[a].tl[1] >= 0
          /\ objs[a].tl[2] >= 0
          /\ objs[a].tl[1] + objs[a].w <= sheet_w
          /\ objs[a].tl[2] + objs[a].h <= sheet_h

\* three sprites are placed and a candidate left in the list lies inside
\* the sheet in a region that is taken
C1_Witness ==
    /\ AllPlaced
    /\ Len(flat_sprites) = 3
    /\ \E i \in 1..Len(tls_to_try) :
          /\ tls_to_try[i][1] + 1 < sheet_w
          /\ tls_to_try[i][2] + 1 < sheet_h
          /\ tls_to_try[i] \in UNION { PlacedFootprint(a) : a \in PlacedIds }

\* a comes before b in descending image size, ties by extraction order
SortsBefore(a, b) ==
    \/ ImageSize(objs[flat_sprites[a]]) > ImageSize(objs[flat_sprites[b]])
    \/ /\ ImageSize(objs[flat_sprites[a]]) = ImageSize(objs[flat_sprites[b]])
       /\ a < b

\* C2: sprites are placed in order of descending area, ties in extraction
\* order: when b is placed, every a that sorts before b is placed already.
C2_SortedOrder ==
    Packed =>
        \A a \in 1..Len(flat_sprites) : \A b \in 1..Len(flat_sprites) :
            (SortsBefore(a, b) /\ b < si) => a < si

\* the fit of the claim C3: footprint within the sheet, all cells free
FitsWithin(tl, s) ==
    /\ tl[1] + s.w <= sheet_w
    /\ tl[2] + s.h <= sheet_h
    /\ RegionFree(tl, s)

FirstFitWithin(s) ==
    SetMin({ i \in 1..Len(tls_to_try) : FitsWithin(tls_to_try[i], s) })

\* C3: a sprite goes to the first candidate whose footprint lies within the
\* sheet (cx + w <= width, cy + h <= height) with all cells free, and the
\* sheet grows only when no candidate is such.
C3_FirstFitWithin ==
    [][ Packing =>
          /\ (sheet_w' # sheet_w \/ sheet_h' # sheet_h) =>
                \A i \in 1..Len(tls_to_try) :
                    ~FitsWithin(tls_to_try[i], CurSprite)
          /\ si' = si + 1 =>
                /\ \E i \in 1..Len(tls_to_try) :
                      FitsWithin(tls_to_try[i], CurSprite)
                /\ objs'[flat_sprites[si]].tl
                      = tls_to_try[FirstFitWithin(CurSprite)]
      ]_vars

\* footprint strictly inside the sheet, all cells free
FitsInside(tl, s) ==
    /\ tl[1] + s.w < sheet_w
    /\ tl[2] + s.h < sheet_h
    /\ \A x \in tl[1]..(tl[1] + s.w - 1) : \A y \in tl[2]..(tl[2] + s.h - 1) :
          <<x, y>> \notin occ

\* C3, amended: a sprite goes to the first candidate whose footprint lies
\* strictly inside the sheet (cx + w < width, cy + h < height) with all
\* cells free, and the sheet grows only when no candidate is such.
C3_FirstFitInside ==
    [][ Packing =>
          /\ (sheet_w' # sheet_w \/ sheet_h' # sheet_h) =>
                \A i \in 1..Len(tls_to_try) :
                    ~FitsInside(tls_to_try[i], CurSprite)
          /\ si' = si + 1 =>
                \E i \in 1..Len(tls_to_try) :
                    /\ FitsInside(tls_to_try[i], CurSprite)
                    /\ \A j \in 1..(i - 1) :
                          ~FitsInside(tls_to_try[j], CurSprite)
                    /\ objs'[flat_sprites[si]].tl = tls_to_try[i]
                    /\ tls_to_try' = RemoveAt(tls_to_try, i)
                          \o get_neighbor_tls(objs'[flat_sprites[si]])
      ]_vars

\* the second sprite went to the second candidate, right of the first
\* sprite, the candidate below the first sprite not fitting; with three
\* sprites placed, two candidates of the list lie free inside the sheet
C3_Witness ==
    /\ Packed
    /\ si = 4
    /\ objs[flat_sprites[2]].tl[1] > 0
    /\ objs[flat_sprites[2]].tl[2] = 0
    /\ \E i \in 1..Len(tls_to_try) : \E j \in 1..Len(tls_to_try) :
          /\ i # j
          /\ tls_to_try[i][1] + 1 < sheet_w /\ tls_to_try[i][2] + 1 < sheet_h
          /\ tls_to_try[j][1] + 1 < sheet_w /\ tls_to_try[j][2] + 1 < sheet_h
          /\ tls_to_try[i] \notin occ
          /\ tls_to_try[j] \notin occ

\* C4: packing terminates, every sprite is eventually placed.
C4_Terminates == <>AllPlaced

\* all sprites of a list are placed, the last one after the sheet had to
\* grow for it
C4_Witness ==
    /\ pc = "pack"
    /\ si > Len(flat_sprites)
    /\ Len(flat_sprites) = MaxFewSprites
    /\ sheet_w > 2 * objs[flat_sprites[1]].w

SumW == SumSeq([k \in 1..Len(flat_sprites) |-> objs[flat_sprites[k]].w])
SumH == SumSeq([k \in 1..Len(flat_sprites) |-> objs[flat_sprites[k]].h])

\* C5: the final sheet is no wider than the sum of the sprite widths plus
\* one gap pixel per placement, and no higher than the sum of the heights
\* plus one gap pixel per placement.
C5_SumPlusGaps ==
    pc \in {"save", "done"} =>
        /\ meta.size[1] <= SumW + Len(flat_sprites)
        /\ meta.size[2] <= SumH + Len(flat_sprites)

\* C5, amended: the final sheet is no wider than twice the sum of the
\* sprite widths and no higher than twice the sum of the sprite heights.
C5_TwiceSum ==
    pc \in {"save", "done"} =>
        /\ meta.size[1] <= 2 * SumW
        /\ meta.size[2] <= 2 * SumH

\* a finished sheet of several sprites, beyond the sum plus gaps in both
\* directions
C5_Witness ==
    /\ pc = "done"
    /\ Len(flat_sprites) >= 2
    /\ meta.size[1] > SumW + Len(flat_sprites)
    /\ meta.size[2] > SumH + Len(flat_sprites)

\* the end-to-end example: a 4x4 sprite, then a 2x2 sprite
Example ==
    /\ Packed
    /\ Len(flat_sprites) = 2
    /\ objs[flat_sprites[1]].w = 4 /\ objs[flat_sprites[1]].h = 4
    /\ objs[flat_sprites[2]].w = 2 /\ objs[flat_sprites[2]].h = 2

\* C10: a placement of a w x h sprite at candidate (x, y) removes that one
\* candidate, keeps the others in order, appends (x, y+h+1) then (x+w+1, y),
\* and sets that sprite's top-left and no other, no other step touching a
\* top-left; on the example the 4x4 sprite goes to (0,0) leaving candidates
\* [(0,5),(5,0)], the 2x2 sprite goes to (0,5) without growth of the sheet,
\* leaving [(5,0),(0,8),(3,5)].
C10_Placement ==
    /\ [][ IF Packing /\ si' = si + 1
           THEN \E i \in 1..Len(tls_to_try) :
                  LET x == tls_to_try[i][1]
                      y == tls_to_try[i][2]
                      id == flat_sprites[si]
                  IN  /\ tls_to_try' = RemoveAt(tls_to_try, i)
                            \o << <<x, y + objs[id].h + 1>>,
                                  <<x + objs[id].w + 1, y>> >>
                      /\ objs' = [objs EXCEPT ![id].tl = <<x, y>>]
           ELSE objs' = objs /\ tls_to_try' \in {tls_to_try, << <<0, 0>> >>}
         ]_vars
    /\ [][ (Example /\ si = 2) =>
              (sheet_w' = sheet_w /\ sheet_h' = sheet_h) ]_vars
    /\ [](Example /\ si = 2 =>
              /\ objs[flat_sprites[1]].tl = <<0, 0>>
              /\ tls_to_try = << <<0, 5>>, <<5, 0>> >>)
    /\ [](Example /\ si = 3 =>
              /\ objs[flat_sprites[1]].tl = <<0, 0>>
              /\ objs[flat_sprites[2]].tl = <<0, 5>>
              /\ tls_to_try = << <<5, 0>>, <<0, 8>>, <<3, 5>> >>)

\* the example with both sprites placed
C10_Witness == Example /\ pc = "pack" /\ si = 3

----------------------------------------------------------------------------
(* Properties of the frame extraction and of the sheet meta *)

Finished == pc \in {"save", "done"}

\* the frames that became Sprite objects, in the order of the json
SpriteFrameIdxs == { k \in 1..Len(frames) : TakesSpriteBranch(frames[k]) }

\* the frame the Sprite object id was made from
FrameOf(id) ==
    CHOOSE k \in SpriteFrameIdxs :
        Cardinality({ j \in SpriteFrameIdxs : j <= k }) = id

\* the "sprite" entry of the meta written for the Sprite object id
MetaSpriteOf(id) ==
    LET g == CHOOSE g \in 1..Len(sprites) :
                \E i \in 1..Len(sprites[g].list) : sprites[g].list[i] = id
        i == CHOOSE i \in 1..Len(sprites[g].list) : sprites[g].list[i] = id
    IN  meta.frames[sprites[g].name][i].sprite

\* C6: a frame of layer `sprite` makes a Sprite; a frame whose layer starts
\* with `mask_` makes a Mask keyed by the name without the prefix, or no
\* record, and never a Sprite; any other layer fails the run with an error
\* naming the layer, before anything is packed or written.
C6_Classification ==
    /\ [][ (pc = "frames" /\ fi <= Len(frames)) =>
            LET f == frames[fi]
                key == SubSeq(f.layer_name, Len(_MASK_LAYER_PREFIX) + 1,
                              Len(f.layer_name))
            IN  /\ f.layer_name = _SPRITE_LAYER =>
                      /\ Len(objs') = Len(objs) + 1
                      /\ masks' = masks
                      /\ pc' = "frames"
                /\ startswith(f.layer_name, _MASK_LAYER_PREFIX) =>
                      /\ objs' = objs
                      /\ sprites' = sprites
                      /\ pc' = "frames"
                      /\ \/ masks' = masks
                         \/ \E e \in masks' :
                              /\ e.layer = key
                              /\ e.mask.frame_idx = f.frame_idx
                              /\ masks' \ {e} \subseteq masks
                /\ (f.layer_name # _SPRITE_LAYER
                    /\ ~startswith(f.layer_name, _MASK_LAYER_PREFIX)) =>
                      /\ pc' = "failed"
                      /\ err' = f.layer_name
                      /\ objs' = objs
                      /\ masks' = masks
         ]_vars
    /\ [](pc = "failed" => (si = 0 /\ sheet_w = 0 /\ sheet_h = 0 /\ ~written))
    /\ [][pc = "failed" => pc' = "failed"]_vars

\* the frame's rectangle, expanded by one pixel, lies inside the sheet
ExpandedInSheet(r) ==
    /\ r.x >= 1
    /\ r.y >= 1
    /\ r.x + r.w + 1 <= SheetW
    /\ r.y + r.h + 1 <= SheetH

\* C8: extraction followed by un-padding in the meta gives back the
\* authored rectangle (x, y, w, h).
C8_RoundTrip ==
    Finished =>
        \A id \in 1..Len(objs) :
            LET r == frames[FrameOf(id)].frame
                m == MetaSpriteOf(id)
            IN  m.x = r.x /\ m.y = r.y /\ m.w = r.w /\ m.h = r.h

\* C8, amended: for an authored rectangle whose one-pixel expansion lies
\* inside the source sheet, extraction followed by un-padding gives back the
\* authored size (w, h); the position of the meta is the sprite's place on
\* the packed sheet plus one in x and y, not the authored (x, y).
C8_SizeRoundTrip ==
    Finished =>
        \A id \in 1..Len(objs) :
            LET r == frames[FrameOf(id)].frame
                m == MetaSpriteOf(id)
            IN  ExpandedInSheet(r) =>
                    /\ m.w = r.w
                    /\ m.h = r.h
                    /\ m.x = objs[id].tl[1] + 1
                    /\ m.y = objs[id].tl[2] + 1

\* the meta is written for two sprites cut inside the sheet, the second
\* one placed away from the origin
C8_Witness ==
    /\ pc = "done"
    /\ Len(objs) = 2
    /\ ExpandedInSheet(frames[FrameOf(1)].frame)
    /\ ExpandedInSheet(frames[FrameOf(2)].frame)
    /\ objs[2].tl # <<0, 0>>
    /\ MetaSpriteOf(2).y # frames[FrameOf(2)].frame.y

\* the frame indices of the entries the meta lists under a name
MetaFrameIdxs(name) ==
    [i \in 1..Len(meta.frames[name]) |-> meta.frames[name][i].sprite.frame_idx]

\* the frame indices of the frames that became sprites of a name, in the
\* order of the json
RECURSIVE InputFrameIdxs(_, _)
InputFrameIdxs(fs, name) ==
    IF fs = <<>> THEN <<>>
    ELSE (IF TakesSpriteBranch(Head(fs)) /\ FrameSpriteName(Head(fs)) = name
          THEN <<Head(fs).frame_idx>> ELSE <<>>)
         \o InputFrameIdxs(Tail(fs), name)

SpriteNames ==
    { FrameSpriteName(frames[k]) : k \in SpriteFrameIdxs }

\* C9: under each sprite name the meta lists an entry for every frame index
\* of that sprite, the entries in ascending order of frame index, whatever
\* the order of the frames in the json.
C9_AscendingFrames ==
    Finished =>
        /\ DOMAIN meta.frames = SpriteNames
        /\ \A name \in DOMAIN meta.frames :
              /\ \A i \in 1..Len(meta.frames[name]) :
                 \A j \in 1..Len(meta.frames[name]) :
                    i < j => MetaFrameIdxs(name)[i] <= MetaFrameIdxs(name)[j]
              /\ { MetaFrameIdxs(name)[i] : i \in 1..Len(meta.frames[name]) }
                    = { InputFrameIdxs(frames, name)[i] :
                            i \in 1..Len(InputFrameIdxs(frames, name)) }

\* C9, amended: under each sprite name the meta lists one entry per frame
\* that became a sprite of that name, in the order of the frames in the
\* json.
C9_InputOrder ==
    Finished =>
        /\ DOMAIN meta.frames = SpriteNames
        /\ \A name \in DOMAIN meta.frames :
              MetaFrameIdxs(name) = InputFrameIdxs(frames, name)

\* the meta is written for two frames of one name given in descending
\* order of frame index
C9_Witness ==
    /\ pc = "done"
    /\ \E name \in DOMAIN meta.frames :
          /\ Len(meta.frames[name]) = 2
          /\ MetaFrameIdxs(name)[1] > MetaFrameIdxs(name)[2]

----------------------------------------------------------------------------
(* extrude_pixels.py: main, on one image file *)

\* an image is [n_rows, n_cols, px], px[<<i, j>>] the channels of pixel (i, j)
Cells(img) == (0..(img.n_rows - 1)) \X (0..(img.n_cols - 1))

\* inp_pixels.shape[2]
Channels(img) == Len(img.px[<<0, 0>>])

\* steps, as (sx, sy)
steps == << <<-1, 0>>, <<0, -1>>, <<1, 0>>, <<0, 1>> >>

\* as NeighborPixel, reading the image that is being written
NeighborPixel_FromOutput(c) == out_pixels.px[c]

\* the pixel read for a neighbour
NeighborPixel(c) == inp_pixels.px[c]

\* the cells (si, sj) of lines 54-61 that pass the bounds tests and whose
\* alpha is not zero, one per step
OpaqueNeighbors(i, j) ==
    SelectSeq([k \in 1..Len(steps) |-> <<i + steps[k][2], j + steps[k][1]>>],
              LAMBDA c :
                /\ ~(c[1] < 0 \/ c[1] >= inp_pixels.n_rows)
                /\ ~(c[2] < 0 \/ c[2] >= inp_pixels.n_cols)
                /\ NeighborPixel(c)[4] > 0)

\* new_color after line 68, cast with astype(np.uint8)
NewColor(i, j) ==
    LET ns == OpaqueNeighbors(i, j)
        n_new_colors == Len(ns)
    IN  [ch \in 1..4 |->
            (SumSeq([k \in 1..Len(ns) |-> NeighborPixel(ns[k])[ch]])
                \div n_new_colors) % 256]

\* out_pixels[i, j] after the body of the loops, lines 50-70
ExtrudedPixel(i, j) ==
    IF inp_pixels.px[<<i, j>>][4] = 0 /\ Len(OpaqueNeighbors(i, j)) # 0
    THEN NewColor(i, j)
    ELSE out_pixels.px[<<i, j>>]

\* lines 35-44: the image is read and copied; one of 3 channels is saved as
\* it is
ExtrudeOpen ==
    /\ epc = "open"
    /\ out_pixels' = inp_pixels
    /\ IF Channels(inp_pixels) = 3
       THEN epc' = "saved" /\ UNCHANGED <<ei, ej>>
       ELSE epc' = "loop" /\ ei' = 0 /\ ej' = 0
    /\ UNCHANGED inp_pixels
    /\ UNCHANGED importVars

\* lines 48-70: one pass of the body of the pixel loops
ExtrudePixel ==
    /\ epc = "loop"
    /\ ei < inp_pixels.n_rows
    /\ out_pixels' = [out_pixels EXCEPT !.px[<<ei, ej>>] = ExtrudedPixel(ei, ej)]
    /\ IF ej + 1 < inp_pixels.n_cols
       THEN ej' = ej + 1 /\ ei' = ei
       ELSE ej' = 0 /\ ei' = ei + 1
    /\ UNCHANGED <<inp_pixels, epc>>
    /\ UNCHANGED importVars

\* lines 72-73: the output image is saved
ExtrudeSave ==
    /\ epc = "loop"
    /\ ei = inp_pixels.n_rows
    /\ epc' = "saved"
    /\ UNCHANGED <<inp_pixels, out_pixels, ei, ej>>
    /\ UNCHANGED importVars

\* pixel values: transparent with colour, opaque, and nearly transparent
Transparent == <<5, 5, 5, 0>>
Opaque == <<255, 100, 0, 255>>
Faint == <<10, 21, 30, 1>>

ImagesOfShape(r, c, values) ==
    { [n_rows |-> r, n_cols |-> c, px |-> px] :
        px \in [(0..(r - 1)) \X (0..(c - 1)) -> values] }

Images(rows, cols, values) ==
    UNION { ImagesOfShape(r, c, values) : r \in 1..rows, c \in 1..cols }

Strips(cols, values) ==
    UNION { ImagesOfShape(1, c, values) : c \in 1..cols }

ImportIdle ==
    /\ pc = "idle"
    /\ frames = <<>>
    /\ layer_names = {}
    /\ objs = <<>>
    /\ sprites = <<>>
    /\ ImportStart

InitExtrude ==
    /\ inp_pixels \in Images(MaxRows, MaxCols, {Transparent, Opaque, Faint})
                      \cup Strips(MaxStripCols, {Transparent, Opaque})
                      \cup Images(MaxRows, MaxCols, {<<0, 0, 0>>, <<1, 2, 3>>})
    /\ out_pixels = <<>>
    /\ ei = 0
    /\ ej = 0
    /\ epc = "open"
    /\ ImportIdle

NextExtrude ==
    \/ ExtrudeOpen
    \/ ExtrudePixel
    \/ ExtrudeSave

SpecExtrude == InitExtrude /\ [][NextExtrude]_vars

----------------------------------------------------------------------------
(* Properties of the extrusion *)

\* the in-bounds cells one step up, down, left or right of (i, j)
FourNeighbors(img, c) ==
    { d \in Cells(img) :
        \/ d[1] = c[1] /\ (d[2] = c[2] - 1 \/ d[2] = c[2] + 1)
        \/ d[2] = c[2] /\ (d[1] = c[1] - 1 \/ d[1] = c[1] + 1) }

\* C7: one pass over a 4-channel image changes exactly the pixels whose
\* input alpha is 0 and that have a 4-connected in-bounds neighbour of input
\* alpha > 0; pixels of alpha > 0 are copied, transparent pixels with only
\* transparent 4-neighbours stay as they are, whatever was written to the
\* output before them.
C7_ChangedPixels ==
    (epc = "saved" /\ Channels(inp_pixels) = 4) =>
        \A c \in Cells(inp_pixels) :
            (out_pixels.px[c] # inp_pixels.px[c])
                <=> /\ inp_pixels.px[c][4] = 0
                    /\ \E d \in FourNeighbors(inp_pixels, c) :
                          inp_pixels.px[d][4] > 0

\* a saved image with a changed pixel and, later in the scan, a pixel left
\* transparent next to the changed one and diagonal to an opaque one
C7_Witness ==
    /\ epc = "saved"
    /\ Channels(inp_pixels) = 4
    /\ \E c \in Cells(inp_pixels) : \E d \in Cells(inp_pixels) :
          /\ out_pixels.px[c] # inp_pixels.px[c]
          /\ d \in FourNeighbors(inp_pixels, c)
          /\ d[1] >= c[1] /\ d[2] >= c[2]
          /\ out_pixels.px[d] = inp_pixels.px[d]
          /\ inp_pixels.px[d][4] = 0
          /\ \E e \in Cells(inp_pixels) :
                /\ e[1] # d[1] /\ e[2] # d[2]
                /\ inp_pixels.px[e][4] > 0

====
